---- MODULE Spec2Model ----
(***************************************************************************)
(* Model of the MP earnings scraper (src/scraper.py): the fetch of the     *)
(* category datasets, the normalisation of rows, and the incremental sync  *)
(* of the normalised records into the SQLite store, run by one process     *)
(* (Spec) or by two processes that share the database file (SpecConc).     *)
(*                                                                         *)
(* A sync run is modelled statement by statement: every cursor.execute     *)
(* and the final conn.commit is one step, so that a failing statement and  *)
(* the interleaving of two connections are behaviours of the model.        *)
(***************************************************************************)
EXTENDS Integers, Sequences, FiniteSets, TLC

(***************************************************************************)
(* Bounds of the model.                                                    *)
(***************************************************************************)
\* rows one run's feed holds, all categories together
MaxRows == 2
\* sync runs started in one behaviour
MaxRuns == 2
\* rows one run's feed holds when two processes run
MaxRowsConc == 1

Procs == {1, 2}

(***************************************************************************)
(* Python values.  A value is a tagged tuple: a str, None, or pandas' NA   *)
(* (whose truth value raises TypeError).                                   *)
(***************************************************************************)
S(s) == <<"str", s>>
PyNone == <<"none">>
NA == <<"NA">>

\* str(v)
Str(v) == IF v = PyNone THEN "None" ELSE IF v = NA THEN "<NA>" ELSE v[2]

\* bool(v) raises: `x or y` asks x for its truth value
TruthRaises(v) == v = NA

\* bool(v), where it does not raise
Truthy(v) == v # PyNone /\ v # NA /\ v # S("")

\* row.get(col): None when the column is missing
Get(row, col) == IF col \in DOMAIN row THEN row[col] ELSE PyNone

(***************************************************************************)
(* The feed.  CATEGORIES maps ten keys to files; the model keeps two of    *)
(* them, in the dict's order.  A raw row maps column names to values.      *)
(***************************************************************************)
CATEGORIES == <<"donations", "gifts_uk">>

NumCategories == Len(CATEGORIES)

RowGift == [member |-> S("A"), party |-> S("Lab"), summary |-> S("gift")]
\* the same disclosed fact as RowGift, with another party
RowGiftCon == [member |-> S("A"), party |-> S("Con"), summary |-> S("gift")]
\* a row whose payer_name is NA: `row.get('payer_name') or ...` raises
RowNA == [member |-> S("A"), party |-> S("Lab"), summary |-> S("gift"), payer_name |-> NA]

RawRows == {RowGift, RowGiftCon, RowNA}

SeqsUpTo(X, n) == UNION {[1..k -> X] : k \in 0..n}

\* what the remote source answers for one category: an error, or a table
FetchError == [ok |-> FALSE, rows |-> <<>>]
Table(rows) == [ok |-> TRUE, rows |-> rows]
Outcomes == {FetchError} \cup {Table(rows) : rows \in SeqsUpTo(RawRows, MaxRows)}

\* the answers when two processes run: every fetch succeeds, every row normalises
ConcOutcomes == {Table(rows) : rows \in SeqsUpTo(RawRows \ {RowNA}, MaxRowsConc)}

RECURSIVE SumLen(_)
\* the rows of a sequence of answers
SumLen(tables) == IF tables = <<>> THEN 0 ELSE Len(Head(tables).rows) + SumLen(Tail(tables))

(***************************************************************************)
(* fetch_csv, fetch_all_data                                               *)
(***************************************************************************)
\* fetch_csv: the table read, or an empty DataFrame when read_csv raises
fetch_csv(outcome) == IF outcome.ok THEN outcome.rows ELSE <<>>

\* AddFetched without the test of df.empty
AddFetchedAlways(data, key, df) == Append(data, [category |-> key, df |-> df])

\* the body of fetch_all_data's loop: data[key] = df, if df is not empty
AddFetched(data, key, df) ==
    IF df # <<>> THEN Append(data, [category |-> key, df |-> df]) ELSE data

(***************************************************************************)
(* compute_hash, process_earnings_data                                     *)
(***************************************************************************)
key_fields == <<"member", "category", "summary", "value", "payer_name", "received_date">>

RECURSIVE Join(_)
\* '|'.join(parts), as the sequence of its pieces
Join(parts) ==
    IF parts = <<>> THEN <<>>
    ELSE IF Len(parts) = 1 THEN parts
    ELSE <<Head(parts), "|">> \o Join(Tail(parts))

\* hashlib.md5(s).hexdigest(): a digest, taken to be injective
md5(s) == <<"md5", s>>

\* compute_hash with party among its key fields
compute_hash_with_party(record) ==
    md5(Join([i \in 1..(Len(key_fields) + 1) |->
                 Str(IF i > Len(key_fields) THEN record.party ELSE record[key_fields[i]])]))

\* compute_hash(record): record.get(f, '') finds every key field in the record
compute_hash(record) ==
    md5(Join([i \in 1..Len(key_fields) |->
                 Str(IF key_fields[i] \in DOMAIN record THEN record[key_fields[i]] ELSE S(""))]))

\* one iteration of process_earnings_data's loop raises
RowRaises(row) == TruthRaises(Get(row, "payer_name"))

\* row.get('payer_name') or row.get('donor_name')
PayerOf(row) ==
    IF Truthy(Get(row, "payer_name")) THEN Get(row, "payer_name") ELSE Get(row, "donor_name")

\* the record built from one row, before its hash
RecordOf(row, category) ==
    [category |-> S(category), member |-> Get(row, "member"), party |-> Get(row, "party"),
     mnis_id |-> Get(row, "mnis_id"), twfy_id |-> Get(row, "twfy_id"),
     summary |-> Get(row, "summary"), value |-> Get(row, "value"),
     payer_name |-> PayerOf(row), received_date |-> Get(row, "received_date"),
     registered |-> Get(row, "registered"), published |-> Get(row, "published"),
     raw_json |-> row]

\* the record with record['hash'] set
Normalize(row, category) ==
    LET record == RecordOf(row, category)
    IN  [f \in DOMAIN record \cup {"hash"} |->
            IF f = "hash" THEN compute_hash(record) ELSE record[f]]

\* process_earnings_data raises when one of its rows does
ProcessRaises(df) == \E i \in 1..Len(df) : RowRaises(df[i])

\* process_earnings_data(df, category): the records, in row order
process_earnings_data(df, category) == [i \in 1..Len(df) |-> Normalize(df[i], category)]

(***************************************************************************)
(* The store: the tables interests and changes of init_database.  A table  *)
(* is the sequence of its rows in id order (ids are 1, 2, ...: no row is   *)
(* ever deleted).                                                          *)
(***************************************************************************)
EmptyDb == [interests |-> <<>>, changes |-> <<>>]

\* HasHash missing the row written last
HasHashButLast(d, h) == \E i \in 1..(Len(d.interests) - 1) : d.interests[i].hash = h

\* SELECT hash FROM interests WHERE hash = ? finds a row
HasHash(d, h) == \E i \in 1..Len(d.interests) : d.interests[i].hash = h

\* UniqueViolation of a hash column declared without UNIQUE
UniqueViolationOff(d, h) == FALSE

\* hash TEXT UNIQUE: the INSERT of a hash the table holds raises IntegrityError
UniqueViolation(d, h) == HasHash(d, h)

\* INSERT INTO interests (...) VALUES (..., now, now)
InsertInterest(d, record, t) ==
    [d EXCEPT !.interests = Append(@,
        [f \in DOMAIN record \cup {"first_seen", "last_seen"} |->
            IF f \in {"first_seen", "last_seen"} THEN t ELSE record[f]])]

\* InsertChange with the record's value as new_value
InsertChangeValue(d, record, t) ==
    [d EXCEPT !.changes = Append(@,
        [interest_hash |-> record.hash, change_type |-> "new", detected_at |-> t,
         old_value |-> PyNone, new_value |-> record.value,
         member |-> record.member, category |-> record.category])]

\* InsertChange stamping the event with a later reading of the clock
InsertChangeLater(d, record, t) ==
    [d EXCEPT !.changes = Append(@,
        [interest_hash |-> record.hash, change_type |-> "new", detected_at |-> t + 1,
         old_value |-> PyNone, new_value |-> record.summary,
         member |-> record.member, category |-> record.category])]

\* INSERT INTO changes (...) VALUES (?, 'new', ?, ?, ?, ?)
InsertChange(d, record, t) ==
    [d EXCEPT !.changes = Append(@,
        [interest_hash |-> record.hash, change_type |-> "new", detected_at |-> t,
         old_value |-> PyNone, new_value |-> record.summary,
         member |-> record.member, category |-> record.category])]

\* UpdateLastSeen setting first_seen too
UpdateBothSeen(d, h, t) ==
    [d EXCEPT !.interests = [i \in 1..Len(@) |->
        IF @[i].hash = h THEN [@[i] EXCEPT !.last_seen = t, !.first_seen = t] ELSE @[i]]]

\* UpdateLastSeen without its WHERE clause
UpdateAllLastSeen(d, h, t) ==
    [d EXCEPT !.interests = [i \in 1..Len(@) |-> [@[i] EXCEPT !.last_seen = t]]]

\* UpdateLastSeen logging a change event for the refresh as well
UpdateAndLog(d, h, t) ==
    [d EXCEPT !.interests = [i \in 1..Len(@) |->
                                IF @[i].hash = h THEN [@[i] EXCEPT !.last_seen = t] ELSE @[i]],
              !.changes = Append(@,
                  [interest_hash |-> h, change_type |-> "new", detected_at |-> t,
                   old_value |-> PyNone, new_value |-> PyNone,
                   member |-> PyNone, category |-> PyNone])]

\* UpdateLastSeen that also restamps the change events of the hash
UpdateAndRestamp(d, h, t) ==
    [d EXCEPT !.interests = [i \in 1..Len(@) |->
                                IF @[i].hash = h THEN [@[i] EXCEPT !.last_seen = t] ELSE @[i]],
              !.changes = [j \in 1..Len(@) |->
                              IF @[j].interest_hash = h THEN [@[j] EXCEPT !.detected_at = t]
                              ELSE @[j]]]

\* UPDATE interests SET last_seen = ? WHERE hash = ?
UpdateLastSeen(d, h, t) ==
    [d EXCEPT !.interests = [i \in 1..Len(@) |->
        IF @[i].hash = h THEN [@[i] EXCEPT !.last_seen = t] ELSE @[i]]]

(***************************************************************************)
(* State.                                                                  *)
(*   db     the committed content of data/mp_earnings.db                   *)
(*   conn   per process, its sqlite3 connection: whether a transaction is  *)
(*          open (python opens one before the first INSERT or UPDATE and   *)
(*          holds SQLite's write lock until commit) and the tables as that *)
(*          transaction sees them                                          *)
(*   run    per process, the locals of run_sync and sync_to_database, the  *)
(*          position pc in them, and the exception that ended the run      *)
(*          (err) with the position it was raised at (at)                  *)
(*   clock  the latest value datetime.now() returned                       *)
(*   runs   the number of runs started                                     *)
(* run[p].fetched (the source's answers), run[p].db0 (db when the run      *)
(* started) and run[p].same (the run got the data of the completed run     *)
(* before it) are history the claims are stated with.                      *)
(***************************************************************************)
VARIABLES db, conn, run, clock, runs

vars == <<db, conn, run, clock, runs>>

NoConn == [inTx |-> FALSE, work |-> EmptyDb]

NoStats == [new |-> 0, total |-> 0]

IdleRun ==
    [pc |-> "idle", err |-> "none", at |-> "none", fetched |-> <<>>, data |-> <<>>, todo |-> <<>>,
     recs |-> <<>>, now |-> 0, stats |-> NoStats, db0 |-> EmptyDb,
     prev |-> <<>>, same |-> FALSE]

\* init_database on a new file: both tables exist and are empty
Init ==
    /\ db = EmptyDb
    /\ conn = [p \in Procs |-> NoConn]
    /\ run = [p \in Procs |-> IdleRun]
    /\ clock = 0
    /\ runs = 0

\* the tables as p's connection reads them
View(p) == IF conn[p].inTx THEN conn[p].work ELSE db

\* another connection holds the write lock
Locked(p) == \E q \in Procs \ {p} : conn[q].inTx

\* the record the loop body is at
Rec(p) == Head(run[p].recs)

\* Raise with the connection committing what the run wrote before the exception
RaiseCommitting(p, e) ==
    /\ run' = [run EXCEPT ![p].pc = "failed", ![p].err = e, ![p].at = run[p].pc]
    /\ db' = IF conn[p].inTx THEN conn[p].work ELSE db
    /\ conn' = [conn EXCEPT ![p] = [inTx |-> FALSE, work |-> [interests |-> <<>>, changes |-> <<>>]]]
    /\ UNCHANGED <<clock, runs>>

\* An exception leaves sync_to_database and run_sync: nothing catches it, the
\* connection is dropped without a commit and its transaction is rolled back.
Raise(p, e) ==
    /\ run' = [run EXCEPT ![p].pc = "failed", ![p].err = e, ![p].at = run[p].pc]
    /\ conn' = [conn EXCEPT ![p] = NoConn]
    /\ UNCHANGED <<db, clock, runs>>

\* run_sync up to the call of fetch_all_data; prev keeps the data of the run
\* before, if that run completed
RunSync(p) ==
    /\ run[p].pc \in {"idle", "done", "failed"}
    /\ runs < MaxRuns
    /\ run' = [run EXCEPT ![p] =
                 [IdleRun EXCEPT !.pc = "fetch", !.db0 = db,
                                 !.prev = IF run[p].pc = "done" THEN <<run[p].data>> ELSE <<>>]]
    /\ runs' = runs + 1
    /\ UNCHANGED <<db, conn, clock>>

\* one iteration of fetch_all_data's loop, the source answering with one of O and
\* the run's feed holding at most n rows; after the last category it returns data
Fetch(p, O, n) ==
    /\ run[p].pc = "fetch"
    /\ \E o \in O :
          /\ SumLen(run[p].fetched) + Len(o.rows) <= n
          /\ LET i == Len(run[p].fetched) + 1
                 data == AddFetched(run[p].data, CATEGORIES[i], fetch_csv(o))
             IN  run' = [run EXCEPT
                           ![p].fetched = Append(@, o),
                           ![p].data = data,
                           ![p].pc = IF i = NumCategories THEN "fetched" ELSE "fetch",
                           ![p].same = i = NumCategories /\ run[p].prev = <<data>>,
                           ![p].prev = IF i = NumCategories THEN <<>> ELSE @]
    /\ UNCHANGED <<db, conn, clock, runs>>

FetchCsv(p) == Fetch(p, Outcomes, MaxRows)

FetchCsvConc(p) == Fetch(p, ConcOutcomes, MaxRowsConc)

\* sync_to_database, lines 87-89: the cursor, now and stats.  The clock does not
\* run backwards; two runs may read the same time.
SyncBegin(p) ==
    /\ run[p].pc = "fetched"
    /\ \E t \in {clock, clock + 1} \ {0} :
          /\ run' = [run EXCEPT ![p].pc = "loop", ![p].now = t, ![p].stats = NoStats,
                                ![p].todo = run[p].data, ![p].recs = <<>>]
          /\ clock' = t
    /\ UNCHANGED <<db, conn, runs>>

\* the outer loop takes the next category and normalises its rows
ProcessCategory(p) ==
    /\ run[p].pc = "loop"
    /\ run[p].recs = <<>>
    /\ run[p].todo # <<>>
    /\ LET item == Head(run[p].todo)
       IN  IF ProcessRaises(item.df)
           THEN Raise(p, "TypeError")
           ELSE /\ run' = [run EXCEPT ![p].recs = process_earnings_data(item.df, item.category),
                                      ![p].todo = Tail(run[p].todo)]
                /\ UNCHANGED <<db, conn, clock, runs>>

\* IncTotal not counting
IncTotalSkip(stats) == stats

\* stats['total'] += 1
IncTotal(stats) == [stats EXCEPT !.total = @ + 1]

\* stats['new'] += 1
IncNew(stats) == [stats EXCEPT !.new = @ + 1]

\* Select looking the hash up in the committed tables, not through the cursor of
\* the connection that writes
SelectCommitted(p) ==
    /\ run[p].pc = "loop"
    /\ run[p].recs # <<>>
    /\ run' = [run EXCEPT ![p].stats = IncTotal(@),
                          ![p].pc = IF HasHash(db, Rec(p).hash) THEN "update" ELSE "insert"]
    /\ UNCHANGED <<db, conn, clock, runs>>

\* stats['total'] += 1, the SELECT and the test of fetchone()
Select(p) ==
    /\ run[p].pc = "loop"
    /\ run[p].recs # <<>>
    /\ run' = [run EXCEPT ![p].stats = IncTotal(@),
                          ![p].pc = IF HasHash(View(p), Rec(p).hash) THEN "update" ELSE "insert"]
    /\ UNCHANGED <<db, conn, clock, runs>>

\* the INSERT INTO interests
Insert(p) ==
    /\ run[p].pc = "insert"
    /\ ~Locked(p)
    /\ IF UniqueViolation(View(p), Rec(p).hash)
       THEN Raise(p, "IntegrityError")
       ELSE /\ conn' = [conn EXCEPT ![p] =
                          [inTx |-> TRUE, work |-> InsertInterest(View(p), Rec(p), run[p].now)]]
            /\ run' = [run EXCEPT ![p].pc = "change"]
            /\ UNCHANGED <<db, clock, runs>>

\* the INSERT INTO changes and stats['new'] += 1
Change(p) ==
    /\ run[p].pc = "change"
    /\ conn' = [conn EXCEPT ![p].work = InsertChange(@, Rec(p), run[p].now)]
    /\ run' = [run EXCEPT ![p].stats = IncNew(@), ![p].recs = Tail(@), ![p].pc = "loop"]
    /\ UNCHANGED <<db, clock, runs>>

\* the UPDATE of last_seen
Update(p) ==
    /\ run[p].pc = "update"
    /\ ~Locked(p)
    /\ conn' = [conn EXCEPT ![p] =
                  [inTx |-> TRUE, work |-> UpdateLastSeen(View(p), Rec(p).hash, run[p].now)]]
    /\ run' = [run EXCEPT ![p].recs = Tail(@), ![p].pc = "loop"]
    /\ UNCHANGED <<db, clock, runs>>

\* Commit returning stats without conn.commit()
ReturnUncommitted(p) ==
    /\ run[p].pc = "loop"
    /\ run[p].recs = <<>>
    /\ run[p].todo = <<>>
    /\ run' = [run EXCEPT ![p].pc = "done"]
    /\ UNCHANGED <<db, conn, clock, runs>>

\* conn.commit() and the return of stats; run_sync then only reads the store
Commit(p) ==
    /\ run[p].pc = "loop"
    /\ run[p].recs = <<>>
    /\ run[p].todo = <<>>
    /\ db' = View(p)
    /\ conn' = [conn EXCEPT ![p] = NoConn]
    /\ run' = [run EXCEPT ![p].pc = "done"]
    /\ UNCHANGED <<clock, runs>>

\* p is at a statement that talks to the store
AtStore(p) ==
    \/ run[p].pc \in {"insert", "change", "update"}
    \/ run[p].pc = "loop" /\ (run[p].recs # <<>> \/ run[p].todo = <<>>)

\* a cursor.execute or the commit raises sqlite3.Error (disk, connectivity)
StoreFailure(p) ==
    /\ AtStore(p)
    /\ Raise(p, "StoreFailure")

\* p's first write finds the write lock held until the busy timeout ends
Busy(p) ==
    /\ run[p].pc \in {"insert", "update"}
    /\ ~conn[p].inTx
    /\ Locked(p)
    /\ Raise(p, "OperationalError")

\* a process runs run_sync once
RunSyncOnce(p) ==
    /\ run[p].pc = "idle"
    /\ RunSync(p)

Step(p) ==
    \/ SyncBegin(p)
    \/ ProcessCategory(p)
    \/ Select(p)
    \/ Insert(p)
    \/ Change(p)
    \/ Update(p)
    \/ Commit(p)

\* one process: runs follow one another
Next == \E p \in {1} : RunSync(p) \/ FetchCsv(p) \/ Step(p) \/ StoreFailure(p)

Spec == Init /\ [][Next]_vars

\* the readings datetime.now() can give: local wall-clock time, which may be set
\* back between two runs
Times == {1, 2}

\* sync_to_database, lines 87-89, under a wall clock that is free to step back.
\* clock holds the last reading, negated from the first run on whose reading was
\* earlier than its predecessor's.
SyncBeginWall(p) ==
    /\ run[p].pc = "fetched"
    /\ \E t \in Times :
          /\ run' = [run EXCEPT ![p].pc = "loop", ![p].now = t, ![p].stats = NoStats,
                                ![p].todo = run[p].data, ![p].recs = <<>>]
          /\ clock' = IF clock < 0 \/ t < clock THEN -t ELSE t
    /\ UNCHANGED <<db, conn, runs>>

\* one process, runs one after another, each reading the wall clock
NextWall ==
    \E p \in {1} :
        \/ RunSync(p)
        \/ FetchCsv(p)
        \/ SyncBeginWall(p)
        \/ ProcessCategory(p)
        \/ Select(p)
        \/ Insert(p)
        \/ Change(p)
        \/ Update(p)
        \/ Commit(p)
        \/ StoreFailure(p)

SpecWall == Init /\ [][NextWall]_vars

\* two processes on the same database file, each running run_sync once
NextConc == \E p \in Procs : RunSyncOnce(p) \/ FetchCsvConc(p) \/ Step(p) \/ Busy(p)

SpecConc == Init /\ [][NextConc]_vars

(***************************************************************************)
(* The normaliser on its own.  Rows that hold or miss each of the columns  *)
(* member, value, payer_name, donor_name, party and mnis_id are normalised *)
(* under either category, one row per process, so that two records can be  *)
(* compared; the record is left in run[p].recs.                            *)
(***************************************************************************)
Columns ==
    [member |-> S("A"), summary |-> S("gift"), value |-> S("100"), payer_name |-> S("X"),
     donor_name |-> S("Y"), party |-> S("Lab"), mnis_id |-> S("1")]

\* the rows: summary is always there, any other column may be missing
HashRows ==
    {[c \in D \cup {"summary"} |-> Columns[c]] :
        D \in SUBSET {"member", "value", "payer_name", "donor_name", "party", "mnis_id"}}

\* process_earnings_data on a DataFrame of one row, once per process
NormalizeRow(p) ==
    /\ run[p].recs = <<>>
    /\ \E row \in HashRows, i \in 1..NumCategories :
          run' = [run EXCEPT ![p].recs = process_earnings_data(<<row>>, CATEGORIES[i])]
    /\ UNCHANGED <<db, conn, clock, runs>>

NextHash == \E p \in Procs : NormalizeRow(p)

SpecHash == Init /\ [][NextHash]_vars

(***************************************************************************)
(* Properties.                                                             *)
(***************************************************************************)
\* the identity hashes a store holds
Hashes(d) == {d.interests[i].hash : i \in 1..Len(d.interests)}

\* no two rows of interests share a hash
Unique(d) ==
    \A i, j \in 1..Len(d.interests) : d.interests[i].hash = d.interests[j].hash => i = j

\* the hashes of the rows of one DataFrame of data
ItemHashes(item) == {Normalize(item.df[i], item.category).hash : i \in 1..Len(item.df)}

\* a DataFrame of data holds the same hash in two rows
RepeatsHash(item) == Cardinality(ItemHashes(item)) < Len(item.df)

\* a stored interest, its last_seen put aside
Forget(r) == [r EXCEPT !.last_seen = 0]

\* the change events of type "new" that refer to hash h
NewEvents(d, h) ==
    {j \in 1..Len(d.changes) :
        d.changes[j].interest_hash = h /\ d.changes[j].change_type = "new"}

\* C1 (Uniqueness): after any sequence of sync runs, over inputs that may repeat a
\* hash within a run or across runs, no two rows of the interests table, committed
\* or written by the run under way, share an identity hash.
C1_Uniqueness == Unique(db) /\ \A p \in Procs : Unique(View(p))

\* a second run has completed on the data of the first, a DataFrame of which
\* repeats a hash, and the store holds that hash once
C1_Witness ==
    /\ run[1].pc = "done"
    /\ run[1].same
    /\ \E k \in 1..Len(run[1].data) : RepeatsHash(run[1].data[k])
    /\ Len(db.interests) = 1

\* C2 (Idempotence): when a run completes on the data of the completed run right
\* before it, it returns new = 0, the store holds the same number of interests and
\* the same change events as when it started, and no stored value but last_seen
\* differs, last_seen never moving back.
C2_Idempotence ==
    \A p \in Procs :
        (run[p].pc = "done" /\ run[p].same) =>
            /\ run[p].stats.new = 0
            /\ Len(db.interests) = Len(run[p].db0.interests)
            /\ db.changes = run[p].db0.changes
            /\ \A i \in 1..Len(run[p].db0.interests) :
                  /\ Forget(db.interests[i]) = Forget(run[p].db0.interests[i])
                  /\ db.interests[i].last_seen >= run[p].db0.interests[i].last_seen

\* a second run on the same, non-empty data has completed and moved a last_seen
C2_Witness ==
    /\ run[1].pc = "done"
    /\ run[1].same
    /\ run[1].stats.total > 0
    /\ \E i \in 1..Len(db.interests) :
          db.interests[i].last_seen > run[1].db0.interests[i].last_seen

\* C3 (Audit completeness): in every committed state each stored interest hash is
\* referred to by exactly one change event of type "new", every change event refers
\* to a stored hash, and the "new" events are as many as the distinct stored hashes.
C3_AuditCompleteness ==
    /\ \A h \in Hashes(db) : Cardinality(NewEvents(db, h)) = 1
    /\ \A j \in 1..Len(db.changes) : db.changes[j].interest_hash \in Hashes(db)
    /\ Cardinality({j \in 1..Len(db.changes) : db.changes[j].change_type = "new"})
          = Cardinality(Hashes(db))

\* two hashes are stored, one of them refreshed by a later run
C3_Witness ==
    /\ Len(db.interests) = 2
    /\ Len(db.changes) = 2
    /\ \E i \in 1..2 : db.interests[i].last_seen > db.interests[i].first_seen

\* C4 (Recency refresh frame): when the row processed has its hash in the store,
\* the UPDATE sets last_seen of the stored rows with that hash to the run's
\* timestamp and changes nothing else: first_seen and every other field of every
\* stored row stay, no row is added, no change event is appended and nothing is
\* committed by it.
C4_RefreshFrame ==
    [][\A p \in Procs :
          (run[p].pc = "update" /\ run'[p].pc = "loop") =>
              LET h == Rec(p).hash
                  d == View(p)
                  e == conn'[p].work
              IN  /\ conn'[p].inTx
                  /\ db' = db
                  /\ e.changes = d.changes
                  /\ Len(e.interests) = Len(d.interests)
                  /\ \A i \in 1..Len(d.interests) :
                        e.interests[i] =
                            IF d.interests[i].hash = h
                            THEN [d.interests[i] EXCEPT !.last_seen = run[p].now]
                            ELSE d.interests[i]]_vars

\* a completed run has refreshed a record stored by an earlier run, from a row of
\* the same hash and another party
C4_Witness ==
    /\ run[1].pc = "done"
    /\ \E i \in 1..Len(db.interests) :
          /\ db.interests[i].first_seen < db.interests[i].last_seen
          /\ db.interests[i].last_seen = run[1].now
          /\ \E k \in 1..Len(run[1].data) :
                \E j \in 1..Len(run[1].data[k].df) :
                    LET r == Normalize(run[1].data[k].df[j], run[1].data[k].category)
                    IN  r.hash = db.interests[i].hash /\ r.party # db.interests[i].party

RECURSIVE SumRows(_)
\* the rows of data, all categories together
SumRows(data) == IF data = <<>> THEN 0 ELSE Len(Head(data).df) + SumRows(Tail(data))

\* C5 (Counts): a run that returns has counted every row of its input once, on
\* either branch: total is the number of rows of data, new is the number of
\* interests, and of change events, the run added to the store, and new <= total.
C5_Counts ==
    \A p \in Procs :
        run[p].pc = "done" =>
            /\ run[p].stats.total = SumRows(run[p].data)
            /\ run[p].stats.new = Len(db.interests) - Len(run[p].db0.interests)
            /\ run[p].stats.new = Len(db.changes) - Len(run[p].db0.changes)
            /\ run[p].stats.new <= run[p].stats.total

\* a run has returned total = 2 and new = 1
C5_Witness ==
    /\ run[1].pc = "done"
    /\ run[1].stats = [new |-> 1, total |-> 2]

\* every change event has its interest and every interest its change event
PairConsistent(d) ==
    /\ \A j \in 1..Len(d.changes) : d.changes[j].interest_hash \in Hashes(d)
    /\ \A h \in Hashes(d) : \E j \in 1..Len(d.changes) : d.changes[j].interest_hash = h

\* C6 (Atomic pair under store failure): a store statement that fails ends the run
\* with its exception, nothing the run wrote is committed and its transaction is
\* gone; the committed store never holds a change event without its interest nor
\* an interest without its change event.
C6_AtomicPair ==
    /\ PairConsistent(db)
    /\ \A p \in Procs :
          run[p].pc = "failed" =>
              /\ run[p].err # "none"
              /\ ~conn[p].inTx
              /\ db = run[p].db0

\* the INSERT INTO changes failed, after the INSERT INTO interests of the pair
C6_Witness ==
    /\ run[1].pc = "failed"
    /\ run[1].err = "StoreFailure"
    /\ run[1].at = "change"

\* C7 (Malformed row isolation): a row whose normalisation raises does not abort
\* the run; the run goes on to return, with every row that normalises stored.
C7_MalformedRowSkipped ==
    \A p \in Procs :
        /\ ~(run[p].pc = "failed" /\ run[p].err = "TypeError")
        /\ run[p].pc = "done" =>
              \A k \in 1..Len(run[p].data) :
                  \A j \in 1..Len(run[p].data[k].df) :
                      ~RowRaises(run[p].data[k].df[j]) =>
                          Normalize(run[p].data[k].df[j], run[p].data[k].category).hash
                              \in Hashes(db)

\* C8 (Duplicate-hash race recovery): a run whose INSERT meets the unique-hash
\* constraint, the other run having inserted the hash after both found it absent,
\* is not ended by the IntegrityError.
C8_RaceRecovered ==
    \A p \in Procs : ~(run[p].pc = "failed" /\ run[p].err = "IntegrityError")

\* C9 (Uniqueness under concurrency): in every interleaving of the statements of
\* two runs no store, committed or seen by a transaction, holds two interests of
\* one hash; an INSERT of a hash the connection finds stored ends the run with an
\* exception, and leaves the committed store as it was.
C9_ConcurrentUniqueness ==
    /\ [](Unique(db) /\ \A p \in Procs : Unique(View(p)))
    /\ [][\A p \in Procs :
             (run[p].pc = "insert" /\ run'[p] # run[p] /\ HasHash(View(p), Rec(p).hash)) =>
                 /\ run'[p].pc = "failed"
                 /\ run'[p].err \in {"IntegrityError", "OperationalError"}
                 /\ db' = db]_vars

\* a run was ended by the IntegrityError of an INSERT whose hash the other run
\* had committed
C9_Witness ==
    \E p \in Procs :
        /\ run[p].pc = "failed"
        /\ run[p].err = "IntegrityError"
        /\ Rec(p).hash \in Hashes(db)
        /\ Unique(db)

\* C10 (Empty or failed category): once fetch_all_data has returned, data holds
\* the categories whose fetch gave rows, with those rows, and no category whose
\* fetch failed or gave none; no run fails while fetching; a run that returns has
\* counted the rows of the other categories, and only them, and stored them all.
C10_EmptyCategory ==
    \A p \in Procs :
        /\ run[p].pc \notin {"idle", "fetch"} =>
              /\ Len(run[p].fetched) = NumCategories
              /\ \A i \in 1..NumCategories :
                    IF run[p].fetched[i].ok /\ run[p].fetched[i].rows # <<>>
                    THEN \E k \in 1..Len(run[p].data) :
                            run[p].data[k] =
                                [category |-> CATEGORIES[i], df |-> run[p].fetched[i].rows]
                    ELSE \A k \in 1..Len(run[p].data) :
                            run[p].data[k].category # CATEGORIES[i]
        /\ run[p].pc = "failed" => run[p].at \notin {"idle", "fetch", "fetched"}
        /\ run[p].pc = "done" =>
              /\ run[p].stats.total = SumLen(run[p].fetched)
              /\ run[p].stats.new <= SumLen(run[p].fetched)
              /\ \A i \in 1..NumCategories :
                    \A j \in 1..Len(run[p].fetched[i].rows) :
                        Normalize(run[p].fetched[i].rows[j], CATEGORIES[i]).hash \in Hashes(db)

\* the fetch of the first category failed, and the run has returned with the rows
\* of the second counted and stored
C10_Witness ==
    /\ run[1].pc = "done"
    /\ ~run[1].fetched[1].ok
    /\ run[1].fetched[2].rows # <<>>
    /\ run[1].stats.total = Len(run[1].fetched[2].rows)
    /\ run[1].stats.new > 0

\* the hash input of a record, piece k of the '|'-joined string
HashPart(r, k) == r.hash[2][2 * k - 1]

\* identity field f of the record is missing from the row it was built from
MissingField(row, f) ==
    /\ f # "category"
    /\ f \notin DOMAIN row
    /\ f = "payer_name" => "donor_name" \notin DOMAIN row

\* C11 (Missing-field safety): a row that misses identity fields normalises and
\* hashes, and each missing identity field stands as the empty string at its
\* position of the hash input.
C11_MissingFieldEmpty ==
    \A p \in Procs :
        \A n \in 1..Len(run[p].recs) :
            \A k \in 1..Len(key_fields) :
                MissingField(run[p].recs[n].raw_json, key_fields[k]) =>
                    HashPart(run[p].recs[n], k) = ""

\* two records agree on the six identity fields
SameIdentity(r1, r2) == \A k \in 1..Len(key_fields) : r1[key_fields[k]] = r2[key_fields[k]]

\* C12 (Hash determinism and identity fields): the hash of a normalised record
\* depends on its member, category, summary, value, payer_name and received_date
\* only: two records that agree on the six (the same row normalised twice among
\* them) have the same hash, whatever their party, ids, dates and raw payload.
C12_HashIdentityFields ==
    \A p, q \in Procs :
        \A m \in 1..Len(run[p].recs) :
            \A n \in 1..Len(run[q].recs) :
                SameIdentity(run[p].recs[m], run[q].recs[n]) =>
                    run[p].recs[m].hash = run[q].recs[n].hash

\* two records of one hash that differ in party, mnis_id and raw payload, one
\* with its payer_name taken from donor_name
C12_Witness ==
    /\ run[1].recs # <<>>
    /\ run[2].recs # <<>>
    /\ run[1].recs[1].hash = run[2].recs[1].hash
    /\ run[1].recs[1].party # run[2].recs[1].party
    /\ run[1].recs[1].mnis_id # run[2].recs[1].mnis_id
    /\ run[1].recs[1].raw_json # run[2].recs[1].raw_json
    /\ run[1].recs[1].payer_name = S("Y")

\* the identity hashes of the rows of data
DataHashes(data) == UNION {ItemHashes(data[k]) : k \in 1..Len(data)}

\* p is inside the loop of sync_to_database
InLoop(p) == run[p].pc \in {"loop", "insert", "change", "update"}

\* C13 (Shared run timestamp): now is read once, before the loop, and stays; every
\* interest the run has inserted has first_seen = last_seen = now, every change
\* event it has appended has detected_at = now, and when the run returns every
\* stored record whose hash is in its data has last_seen = now.
C13_SharedTimestamp ==
    /\ [](\A p \in Procs :
            /\ (InLoop(p) \/ run[p].pc = "done") =>
                  /\ \A i \in (Len(run[p].db0.interests) + 1)..Len(View(p).interests) :
                        /\ View(p).interests[i].first_seen = run[p].now
                        /\ View(p).interests[i].last_seen = run[p].now
                  /\ \A j \in (Len(run[p].db0.changes) + 1)..Len(View(p).changes) :
                        View(p).changes[j].detected_at = run[p].now
            /\ run[p].pc = "done" =>
                  \A i \in 1..Len(db.interests) :
                      db.interests[i].hash \in DataHashes(run[p].data) =>
                          db.interests[i].last_seen = run[p].now)
    /\ [][\A p \in Procs : InLoop(p) => run'[p].now = run[p].now]_vars

\* a run at a later time than the first has returned, having refreshed one record
\* and inserted another
C13_Witness ==
    /\ run[1].pc = "done"
    /\ Len(run[1].db0.interests) = 1
    /\ Len(db.interests) = 2
    /\ db.interests[1].first_seen < run[1].now
    /\ db.interests[1].last_seen = run[1].now
    /\ db.changes[2].detected_at = run[1].now

\* C14 (In-run duplicates): the INSERT branch is taken for a hash the connection
\* does not see stored and the UPDATE branch for one it sees, the run's own inserts
\* included; so when the run returns, a hash of its data that was not stored before
\* the run, however many rows hold it, has one stored record and one change event,
\* new has counted it once and total has counted every row.
C14_InRunDuplicates ==
    \A p \in Procs :
        /\ run[p].pc = "insert" => ~HasHash(View(p), Rec(p).hash)
        /\ run[p].pc = "update" => HasHash(View(p), Rec(p).hash)
        /\ run[p].pc = "done" =>
              /\ \A h \in DataHashes(run[p].data) \ Hashes(run[p].db0) :
                    /\ Cardinality({i \in 1..Len(db.interests) : db.interests[i].hash = h}) = 1
                    /\ Cardinality({j \in 1..Len(db.changes) : db.changes[j].interest_hash = h}) = 1
              /\ run[p].stats.new = Cardinality(DataHashes(run[p].data) \ Hashes(run[p].db0))
              /\ run[p].stats.total = SumRows(run[p].data)

\* a run on an empty store has returned from two rows of one hash in one category:
\* one record, one change event, new = 1, total = 2
C14_Witness ==
    /\ run[1].pc = "done"
    /\ run[1].db0 = EmptyDb
    /\ Len(run[1].data) = 1
    /\ RepeatsHash(run[1].data[1])
    /\ Len(db.interests) = 1
    /\ Len(db.changes) = 1
    /\ run[1].stats = [new |-> 1, total |-> 2]

\* C15 (Durable commit before return): the step by which sync_to_database returns
\* makes the committed tables those its connection saw, with every insert and
\* update of the run, and closes the transaction; after the return nothing of the
\* run is pending and every hash of its data is in the committed store, where the
\* next run finds it.
C15_DurableCommit ==
    /\ [](\A p \in Procs :
            run[p].pc = "done" =>
                /\ ~conn[p].inTx
                /\ DataHashes(run[p].data) \subseteq Hashes(db))
    /\ [][\A p \in Procs :
             (run[p].pc # "done" /\ run'[p].pc = "done") =>
                 /\ db' = View(p)
                 /\ conn'[p] = NoConn]_vars

\* a second run has found, with its first SELECT, the record the first run inserted
C15_Witness ==
    /\ runs = 2
    /\ run[1].pc = "update"
    /\ run[1].stats.total = 1
    /\ ~conn[1].inTx
    /\ Len(run[1].db0.interests) = 1
    /\ Rec(1).hash \in Hashes(db)

\* s is an initial part of t
IsPrefix(s, t) == Len(s) <= Len(t) /\ \A i \in 1..Len(s) : s[i] = t[i]

\* the change log in id order is in order of detected_at
LogOrdered(d) ==
    \A i, j \in 1..Len(d.changes) :
        i < j => d.changes[i].detected_at <= d.changes[j].detected_at

\* no step removes a stored hash, or removes or alters a change event
NeverDelete ==
    [][/\ Hashes(db) \subseteq Hashes(db')
       /\ IsPrefix(db.changes, db'.changes)]_vars

\* C16 (Append-only, never-delete store), as stated: over any sequence of runs the
\* stored hashes never shrink, written change events are never modified or removed,
\* and the change log in id order is ordered by detection time.
C16_LogOrderedAlways == NeverDelete /\ [](LogOrdered(db))

\* C16 (Append-only, never-delete store), amended: over any sequence of runs the
\* stored hashes never shrink and written change events are never modified or
\* removed; the change log in id order is ordered by detection time as long as no
\* run has read an earlier time than the run before it.
C16_AppendOnly == NeverDelete /\ [](clock >= 0 => LogOrdered(db))

\* two runs at increasing times have each logged an event
C16_Witness ==
    /\ clock > 0
    /\ runs = 2
    /\ Len(db.changes) = 2
    /\ db.changes[1].detected_at < db.changes[2].detected_at

\* event e is the 'new' event of record r
NewEventOf(e, r) ==
    /\ e.change_type = "new"
    /\ e.interest_hash = r.hash
    /\ e.new_value = r.summary
    /\ e.member = r.member
    /\ e.category = r.category
    /\ e.old_value = PyNone

\* C17 (Change event content): the INSERT into changes on the insert branch appends
\* one event, of type "new", with the hash of the record just inserted, its summary
\* as new_value, its member and category, and old_value null; so every committed
\* event is such an event of the stored record with its hash.
C17_ChangeEventContent ==
    /\ [][\A p \in Procs :
             (run[p].pc = "change" /\ run'[p].pc = "loop") =>
                 LET d == View(p)
                     e == conn'[p].work
                     r == Rec(p)
                 IN  /\ e.interests = d.interests
                     /\ d.interests[Len(d.interests)].hash = r.hash
                     /\ Len(e.changes) = Len(d.changes) + 1
                     /\ IsPrefix(d.changes, e.changes)
                     /\ NewEventOf(e.changes[Len(e.changes)], r)]_vars
    /\ [](\A j \in 1..Len(db.changes) :
             \E i \in 1..Len(db.interests) : NewEventOf(db.changes[j], db.interests[i]))

\* the run has just appended the event of the 'gift' record it inserted
C17_Witness ==
    /\ run[1].pc = "loop"
    /\ conn[1].inTx
    /\ Len(conn[1].work.changes) = Len(db.changes) + 1
    /\ LET e == conn[1].work.changes[Len(conn[1].work.changes)]
       IN  /\ NewEventOf(e, conn[1].work.interests[Len(conn[1].work.interests)])
           /\ e.new_value = S("gift")
           /\ e.old_value = PyNone

\* C18 (Records absent from the feed are untouched): a record stored before the run
\* whose hash is in no row of the run's data, the records of a category whose fetch
\* failed among them, stays at its place with every field as it was, last_seen
\* included, in what the run writes and in what it commits, and no change event the
\* run appends refers to it.
C18_AbsentUntouched ==
    \A p \in Procs :
        (InLoop(p) \/ run[p].pc = "done") =>
            \A i \in 1..Len(run[p].db0.interests) :
                LET r == run[p].db0.interests[i]
                IN  r.hash \notin DataHashes(run[p].data) =>
                        /\ Len(View(p).interests) >= i
                        /\ View(p).interests[i] = r
                        /\ \A j \in (Len(run[p].db0.changes) + 1)..Len(View(p).changes) :
                              View(p).changes[j].interest_hash # r.hash

\* a later run whose fetch of 'donations' failed has inserted a 'gifts_uk' record
\* and returned; the 'donations' record of the first run is as it was
C18_Witness ==
    /\ run[1].pc = "done"
    /\ run[1].fetched[1] = FetchError
    /\ Len(run[1].db0.interests) = 1
    /\ run[1].db0.interests[1].category = S("donations")
    /\ Len(db.interests) = 2
    /\ db.interests[1] = run[1].db0.interests[1]
    /\ db.interests[1].last_seen < run[1].now

\* C19 (Recency-marker meaning): as long as no run has read an earlier time than
\* the run before it, every committed record has first_seen <= last_seen.  The
\* committed store changes only by the commit of a run that returns, and that
\* commit gives the records it adds the run's now as first_seen, leaves first_seen
\* of the others, sets last_seen to now for the hashes of the run's data and leaves
\* last_seen of the others: first_seen is the time of the inserting run, last_seen
\* the time of the latest committed run that had the hash.
C19_RecencyMarkers ==
    /\ [](clock >= 0 =>
             \A i \in 1..Len(db.interests) :
                 db.interests[i].first_seen <= db.interests[i].last_seen)
    /\ [][db' # db =>
             \E p \in Procs :
                 /\ run[p].pc # "done"
                 /\ run'[p].pc = "done"
                 /\ Len(db'.interests) >= Len(db.interests)
                 /\ \A i \in 1..Len(db'.interests) :
                       LET r == db'.interests[i]
                       IN  /\ r.first_seen = IF i <= Len(db.interests)
                                             THEN db.interests[i].first_seen ELSE run[p].now
                           /\ r.last_seen = IF r.hash \in DataHashes(run[p].data)
                                            THEN run[p].now ELSE db.interests[i].last_seen]_vars

\* the first run inserted two records at time 1, the second had one of them in its
\* data at time 2
C19_Witness ==
    /\ clock = 2
    /\ runs = 2
    /\ run[1].pc = "done"
    /\ Len(db.interests) = 2
    /\ \E i, k \in 1..2 :
          /\ db.interests[i].first_seen = 1
          /\ db.interests[i].last_seen = 2
          /\ db.interests[k].first_seen = 1
          /\ db.interests[k].last_seen = 1

====
